---- MODULE Spec2Model ----
(***************************************************************************)
(* Drop-Impact: the simulation controller of simulationCases/dropImpact.c  *)
(* with the parameter store (src-local/params.h) and the diagnostics       *)
(* recorder (src-local/diagnostics.h).                                     *)
(*                                                                         *)
(* One process launch is main(): parameters, validate_params, output       *)
(* setup, open_log_files, then the engine's scheduler run(), which fires   *)
(* the events of dropImpact.c in their order of definition: init (once),   *)
(* then per iteration adapt, statistics, snapshots (when due), and cleanup *)
(* at the end.  The file system outlives a launch; a launch can crash and  *)
(* the program can be launched again on the same output directory.         *)
(*                                                                         *)
(* Numbers.  A C double is modelled as an integer count of a unit chosen   *)
(* per quantity (times: ticks of 0.005, so that TSNAP = 0.01 is 2 ticks),  *)
(* or as NaN: the field's name is then in the record's "nan" set and every *)
(* comparison with it is false, as in IEEE 754.                            *)
(*                                                                         *)
(* Engine contract used (Basilisk, not part of the repository):            *)
(*  - restore(file) returns false when the file cannot be opened, and      *)
(*    otherwise sets the fields, the iteration i and the time t to those   *)
(*    of the dump; the events due at the restored time still fire;         *)
(*  - dump(file) writes the fields with i and t to a temporary file and    *)
(*    renames it (atomic); when the file cannot be created it ends the     *)
(*    process with status 1;                                               *)
(*  - the timestep is cut so that event times are hit exactly; the run     *)
(*    ends after the last time of the last bounded event;                  *)
(*  - the events of an iteration fire in their order of definition in      *)
(*    dropImpact.c.  For event adapt this is an assumption: the solver     *)
(*    header navier-stokes/centered.h defines an event of the same name,   *)
(*    and the place of the two in an iteration is the engine's to decide.  *)
(***************************************************************************)
EXTENDS Integers, Sequences, FiniteSets, TLC

VARIABLES
    params,        \* struct SimulationParams params (dropImpact.c:129)
    pc,            \* position of the process in main() / the event loop
    exit_code,     \* process exit status; NoExit while it runs or after a crash
    log_fp,        \* static FILE *log_fp: TRUE when non-NULL (diagnostics.h:20)
    i,             \* scheduler iteration
    t,             \* scheduler time, in ticks
    dt,            \* timestep of the step about to be taken, in ticks
    field,         \* FieldState, as the number of solver steps applied to it
    restored,      \* whether init's restore() succeeded in this launch
    diag,          \* kinds of message this launch printed on stderr
    status,        \* iterations whose record this launch mirrored to stderr
    dir_exists,    \* file system: <output_dir> exists
    inter_exists,  \* file system: <output_dir>/intermediate exists
    log_exists,    \* file system: <output_dir>/log exists
    log,           \* file system: the records of <output_dir>/log, in order
    restart_file,  \* file system: <output_dir>/restart
    archive,       \* file system: intermediate/snapshot-<time>, by name
    dtcfl,         \* the solver's stability-limited timestep, in ticks
    launches,      \* launches so far, this one included
    crash_seen,    \* this launch follows a launch that crashed
    last_ckpt,     \* the last checkpoint whose save_snapshot returned
    start_t,       \* the time at which this launch's scheduler started
    max_logged,    \* the highest iteration ever written to the log, or -1
    fired,         \* times at which snapshots fired in this launch
    argv,          \* the command line: argv[k + 1] is C's argv[k]
    paramfile,     \* file system: the file that argv[1] names
    calls,         \* what this launch called since the scheduler's last step
    tool_argv,     \* command line of the post-processing tool that runs
    dumps,         \* file system: the snapshot files the tools can name
    tool           \* the post-processing tool: its position and its data

vars == <<params, pc, exit_code, log_fp, i, t, dt, field, restored, diag,
          status, dir_exists, inter_exists, log_exists, log, restart_file,
          archive, dtcfl, launches, crash_seen, last_ckpt, start_t, max_logged, fired,
          argv, paramfile, calls, tool_argv, dumps, tool>>

(***************************************************************************)
(* Bounds of the model and constants of the program.                       *)
(***************************************************************************)
MaxLaunches == 3      \* launches of the program on one output directory
MaxTmax == 5          \* longest end time of a crash-and-relaunch run, ticks
MaxDt == 2            \* largest stability-limited timestep, ticks
LongTmax == 201       \* end time of the single long launch, ticks

TSNAP == 2            \* #define TSNAP (0.01), in ticks of 0.005
IntBits == 32         \* bits of an int
StatusEvery == 100    \* iter % 100 in write_statistics
TicksE4 == 50         \* one tick in units of 1e-4, the precision of %5.4f
NoExit == << >>       \* no exit status (yet); <<n>> is status n

FieldNaN(p, f) == f \in p.nan

Min(a, b) == IF a <= b THEN a ELSE b
Max(a, b) == IF a >= b THEN a ELSE b

Range(s) == {s[k] : k \in DOMAIN s}

\* C's % on int operands: the remainder has the sign of the dividend.
CRem(a, b) ==
    LET ab == IF b < 0 THEN -b ELSE b
    IN  IF a >= 0 THEN a % ab ELSE -((-a) % ab)

(***************************************************************************)
(* params.h: the parameter store.                                          *)
(*                                                                         *)
(* Units of the double fields: We 1; Ohd 1e-3; Ohs 1e-5; rho_ratio 1e-3;   *)
(* Ldomain, drop_x, drop_y, drop_radius, impact_velocity, outflow_y_max    *)
(* 0.1; fErr 1e-3; KErr 1e-6; VelErr 1e-2; outflow_x_frac 0.01; tmax and   *)
(* tsnap ticks of 0.005.  A comparison of two fields is only made between  *)
(* fields of one unit.                                                     *)
(***************************************************************************)
set_default_params ==
    [ CaseNo |-> 1000,
      We |-> 10, Ohd |-> 5, Ohs |-> 1, rho_ratio |-> 1,
      Ldomain |-> 80, drop_x |-> 15, drop_y |-> 10, drop_radius |-> 10,
      impact_velocity |-> -10,
      MAXlevel |-> 10, MINlevel |-> 4, init_grid_level |-> 6,
      fErr |-> 1, KErr |-> 1, VelErr |-> 1,
      tmax |-> 800, tsnap |-> 2,
      output_dir |-> <<"r", "e", "s", "u", "l", "t", "s">>, log_interval |-> 1,
      outflow_x_frac |-> 95, outflow_y_max |-> 40,
      nan |-> {} ]

\* p->f <= 0 on a double: false when the field is NaN.
LeZero(p, f) == ~FieldNaN(p, f) /\ p[f] <= 0

\* p->f <= k * p->g on doubles of one unit.
LeTimes(p, f, k, g) ==
    ~FieldNaN(p, f) /\ ~FieldNaN(p, g) /\ p[f] <= k * p[g]

\* p->f > p->g on doubles of one unit.
GtField(p, f, g) == ~FieldNaN(p, f) /\ ~FieldNaN(p, g) /\ p[f] > p[g]

\* The messages validate_params prints for p: one per failing test, and the
\* MAXlevel warning, which does not clear "valid".
validate_messages(p) ==
    (IF p.CaseNo < 1000 \/ p.CaseNo > 9999 THEN {"ERR_CaseNo"} ELSE {})
    \cup (IF LeZero(p, "We") THEN {"ERR_We"} ELSE {})
    \cup (IF LeZero(p, "Ohd") THEN {"ERR_Ohd"} ELSE {})
    \cup (IF LeZero(p, "Ohs") THEN {"ERR_Ohs"} ELSE {})
    \cup (IF LeZero(p, "rho_ratio") THEN {"ERR_rho_ratio"} ELSE {})
    \cup (IF LeTimes(p, "Ldomain", 2, "drop_radius") THEN {"ERR_Ldomain"} ELSE {})
    \cup (IF LeZero(p, "drop_radius") THEN {"ERR_drop_radius"} ELSE {})
    \cup (IF p.MAXlevel < p.MINlevel THEN {"ERR_MAXlevel"} ELSE {})
    \cup (IF p.MAXlevel > 15 THEN {"WARN_MAXlevel"} ELSE {})
    \cup (IF p.MINlevel < 2 THEN {"ERR_MINlevel"} ELSE {})
    \cup (IF LeZero(p, "fErr") \/ LeZero(p, "KErr") \/ LeZero(p, "VelErr")
          THEN {"ERR_tolerances"} ELSE {})
    \cup (IF LeZero(p, "tmax") THEN {"ERR_tmax"} ELSE {})
    \cup (IF LeZero(p, "tsnap") \/ GtField(p, "tsnap", "tmax")
          THEN {"ERR_tsnap"} ELSE {})

ValidationErrors ==
    {"ERR_CaseNo", "ERR_We", "ERR_Ohd", "ERR_Ohs", "ERR_rho_ratio",
     "ERR_Ldomain", "ERR_drop_radius", "ERR_MAXlevel", "ERR_MINlevel",
     "ERR_tolerances", "ERR_tmax", "ERR_tsnap"}

\* The value validate_params returns: 1 (TRUE) unless a test set valid = 0.
validate_params(p) == validate_messages(p) \cap ValidationErrors = {}

(***************************************************************************)
(* params.h: text to numbers.  A C string is a sequence of characters.     *)
(***************************************************************************)
LineBuf == 512        \* char line[512] of parse_params_from_file
OutputDirSize == 256  \* char output_dir[256]

\* isspace() in the "C" locale.
isspace(c) == c \in {" ", "\t", "\n", "\r", "\f"}

isdigit(c) == c \in {"0", "1", "2", "3", "4", "5", "6", "7", "8", "9"}

DigitValue(c) ==
    CASE c = "0" -> 0 [] c = "1" -> 1 [] c = "2" -> 2 [] c = "3" -> 3
      [] c = "4" -> 4 [] c = "5" -> 5 [] c = "6" -> 6 [] c = "7" -> 7
      [] c = "8" -> 8 [] c = "9" -> 9

RECURSIVE Pow10(_)
Pow10(n) == IF n = 0 THEN 1 ELSE 10 * Pow10(n - 1)

\* strchr(s, c): the index of the first c in s, or 0 (NULL).
strchr(s, c) ==
    LET at == {k \in 1..Len(s) : s[k] = c}
    IN  IF at = {} THEN 0 ELSE CHOOSE k \in at : \A m \in at : k <= m

\* s from its character k on.
From(s, k) == SubSeq(s, k, Len(s))

\* while (*start && isspace(*start)) start++;
SkipSpaces(s) ==
    LET non == {k \in 1..Len(s) : ~isspace(s[k])}
    IN  IF non = {} THEN << >>
        ELSE From(s, CHOOSE k \in non : \A m \in non : k <= m)

\* end = s + strlen(s) - 1; while (end > s && isspace(*end)) *end-- = 0;
\* the first character is never cut.
TrimRight(s) ==
    LET keep == {k \in 1..Len(s) : k = 1 \/ ~isspace(s[k])}
    IN  IF keep = {} THEN s
        ELSE SubSeq(s, 1, CHOOSE k \in keep : \A m \in keep : k >= m)

\* The length of the run of digits at the head of s.
DigitRun(s) ==
    LET non == {k \in 1..Len(s) : ~isdigit(s[k])}
    IN  IF non = {} THEN Len(s)
        ELSE (CHOOSE k \in non : \A m \in non : k <= m) - 1

\* The number a sequence of digits writes.
RECURSIVE DigitsValue(_)
DigitsValue(s) ==
    IF s = << >> THEN 0
    ELSE 10 * DigitsValue(SubSeq(s, 1, Len(s) - 1)) + DigitValue(s[Len(s)])

\* An optional sign at the head of s: <<the sign, the rest>>.
Sign(s) ==
    IF s # << >> /\ s[1] = "-" THEN <<-1, From(s, 2)>>
    ELSE IF s # << >> /\ s[1] = "+" THEN <<1, From(s, 2)>>
    ELSE <<1, s>>

\* A sign and the digits that follow it, as a number; without a digit, 0.
SignedDigits(sg) == sg[1] * DigitsValue(SubSeq(sg[2], 1, DigitRun(sg[2])))

\* atoi(s): white space, a sign, digits; what follows is not looked at and
\* text without a digit gives 0.
atoi(s) == SignedDigits(Sign(SkipSpaces(s)))

\* A double as a decimal: m * 10^e, or NaN.
Decimal(mant, ex) == [nan |-> FALSE, m |-> mant, e |-> ex]
NaN == [nan |-> TRUE, m |-> 0, e |-> 0]

\* The exponent part at the head of s: 'e' or 'E', a sign, digits.
ExponentPart(s) ==
    IF s # << >> /\ s[1] \in {"e", "E"} THEN SignedDigits(Sign(From(s, 2)))
    ELSE 0

\* The decimal of sign sg, integer digits id, fraction digits fd and the
\* text that follows them.
DecimalOf(sg, id, fd, rest) ==
    IF Len(id) + Len(fd) = 0 THEN Decimal(0, 0)
    ELSE Decimal(sg * DigitsValue(id \o fd), ExponentPart(rest) - Len(fd))

\* The fraction of a number: fr is the text after the '.'.
WithFraction(sg, id, fr) ==
    DecimalOf(sg, id, SubSeq(fr, 1, DigitRun(fr)), From(fr, DigitRun(fr) + 1))

\* The number after the integer digits id: a '.' starts the fraction.
AfterInteger(sg, id, rest) ==
    IF rest # << >> /\ rest[1] = "." THEN WithFraction(sg, id, From(rest, 2))
    ELSE DecimalOf(sg, id, << >>, rest)

\* The number of sign sg that r writes.
Unsigned(sg, r) ==
    IF Len(r) >= 3 /\ r[1] \in {"n", "N"} /\ r[2] \in {"a", "A"}
       /\ r[3] \in {"n", "N"}
    THEN NaN
    ELSE AfterInteger(sg, SubSeq(r, 1, DigitRun(r)), From(r, DigitRun(r) + 1))

Signed(sg) == Unsigned(sg[1], sg[2])

\* atof(s) for decimal text: white space, a sign, "nan" or digits with an
\* optional fraction and an optional exponent; what follows is not looked
\* at and text without a number gives 0.
atof(s) == Signed(Sign(SkipSpaces(s)))

\* The names of the fields, as parse_params_from_file compares them.
KeyName ==
    [ CaseNo |-> <<"C", "a", "s", "e", "N", "o">>,
      We |-> <<"W", "e">>,
      Ohd |-> <<"O", "h", "d">>,
      Ohs |-> <<"O", "h", "s">>,
      rho_ratio |-> <<"r", "h", "o", "_", "r", "a", "t", "i", "o">>,
      Ldomain |-> <<"L", "d", "o", "m", "a", "i", "n">>,
      drop_x |-> <<"d", "r", "o", "p", "_", "x">>,
      drop_y |-> <<"d", "r", "o", "p", "_", "y">>,
      drop_radius |-> <<"d", "r", "o", "p", "_", "r", "a", "d", "i", "u", "s">>,
      impact_velocity |-> <<"i", "m", "p", "a", "c", "t", "_", "v", "e", "l", "o", "c", "i", "t", "y">>,
      MAXlevel |-> <<"M", "A", "X", "l", "e", "v", "e", "l">>,
      MINlevel |-> <<"M", "I", "N", "l", "e", "v", "e", "l">>,
      init_grid_level |-> <<"i", "n", "i", "t", "_", "g", "r", "i", "d", "_", "l", "e", "v", "e", "l">>,
      fErr |-> <<"f", "E", "r", "r">>,
      KErr |-> <<"K", "E", "r", "r">>,
      VelErr |-> <<"V", "e", "l", "E", "r", "r">>,
      tmax |-> <<"t", "m", "a", "x">>,
      tsnap |-> <<"t", "s", "n", "a", "p">>,
      output_dir |-> <<"o", "u", "t", "p", "u", "t", "_", "d", "i", "r">>,
      log_interval |-> <<"l", "o", "g", "_", "i", "n", "t", "e", "r", "v", "a", "l">>,
      outflow_x_frac |-> <<"o", "u", "t", "f", "l", "o", "w", "_", "x", "_", "f", "r", "a", "c">>,
      outflow_y_max |-> <<"o", "u", "t", "f", "l", "o", "w", "_", "y", "_", "m", "a", "x">> ]

FieldNames == DOMAIN KeyName

IntFields == {"CaseNo", "MAXlevel", "MINlevel", "init_grid_level", "log_interval"}

\* How many of its unit 1.0 of a double field is (the units of the fields
\* are listed with set_default_params).
UnitsPerOne ==
    [ We |-> 1, Ohd |-> 1000, Ohs |-> 100000, rho_ratio |-> 1000,
      Ldomain |-> 10, drop_x |-> 10, drop_y |-> 10, drop_radius |-> 10,
      impact_velocity |-> 10, fErr |-> 1000, KErr |-> 1000000, VelErr |-> 100,
      tmax |-> 200, tsnap |-> 200, outflow_x_frac |-> 100, outflow_y_max |-> 10 ]

\* A decimal in the unit of field f.
ToUnits(f, d) ==
    IF d.e >= 0 THEN d.m * Pow10(d.e) * UnitsPerOne[f]
    ELSE (d.m * UnitsPerOne[f]) \div Pow10(-d.e)

\* p->f = d for a double field f.
StoreDouble(p, f, d) ==
    IF d.nan THEN [p EXCEPT ![f] = 0, !.nan = @ \cup {f}]
    ELSE [p EXCEPT ![f] = ToUnits(f, d), !.nan = @ \ {f}]

\* p->f = atoi(text), p->f = atof(text) or strncpy(p->output_dir, text, ..).
Store(p, f, text) ==
    IF f \in IntFields THEN [p EXCEPT ![f] = atoi(text)]
    ELSE IF f = "output_dir"
    THEN [p EXCEPT ![f] = SubSeq(text, 1, Min(Len(text), OutputDirSize - 1))]
    ELSE StoreDouble(p, f, atof(text))

\* if (given) p->f = ...;
StoreIf(given, p, f, text) == IF given THEN Store(p, f, text) ELSE p

(***************************************************************************)
(* params.h: the two parsers.  A parameter file is a sequence of lines,    *)
(* each a sequence of characters without its newline.                      *)
(***************************************************************************)
\* struct SimulationParams params at program start: a global, all zero.
ZeroParams ==
    [ f \in DOMAIN set_default_params |->
        IF f = "nan" THEN {} ELSE IF f = "output_dir" THEN << >> ELSE 0 ]

\* What fgets(line, sizeof(line), fp) returns call after call on one line
\* of the file, its newline included: pieces of at most LineBuf - 1
\* characters.
RECURSIVE fgets(_)
fgets(rest) ==
    IF Len(rest) <= LineBuf - 1 THEN << rest >>
    ELSE << SubSeq(rest, 1, LineBuf - 1) >> \o fgets(From(rest, LineBuf))

\* params.h:162-187.  The assignment under key, or the warning.
parse_key_value(r, key, value) ==
    IF \E f \in FieldNames : KeyName[f] = key
    THEN [r EXCEPT !.p = Store(@, CHOOSE f \in FieldNames : KeyName[f] = key, value)]
    ELSE [r EXCEPT !.msgs = @ \cup {"WARN_unknown_key"}]

\* params.h:146-160.  start split at its first '=' (at eq) into the key,
\* trimmed at its end, and the value, trimmed at both ends.
parse_at(r, start, eq) ==
    IF eq = 0 THEN r
    ELSE parse_key_value(r, TrimRight(SubSeq(start, 1, eq - 1)),
                         TrimRight(SkipSpaces(From(start, eq + 1))))

\* hash = strchr(line, '#'); if (hash) *hash = 0;
StripComment(line, hash) == IF hash > 0 THEN SubSeq(line, 1, hash - 1) ELSE line

\* params.h:143-147.  Nothing for an empty line or one without '='.
parse_start(r, start) ==
    IF start = << >> THEN r ELSE parse_at(r, start, strchr(start, "="))

\* params.h:137-187.  One pass of the loop on the piece fgets returned:
\* cut at '#', skip white space, split at the first '=', trim the key and
\* the value, store under the key or warn.
parse_line(r, line) ==
    parse_start(r, SkipSpaces(StripComment(line, strchr(line, "#"))))

RECURSIVE parse_lines(_, _)
parse_lines(r, lines) ==
    IF lines = << >> THEN r
    ELSE parse_lines(parse_line(r, Head(lines)), Tail(lines))

RECURSIVE AllPieces(_)
AllPieces(filetext) ==
    IF filetext = << >> THEN << >>
    ELSE fgets(Head(filetext) \o <<"\n">>) \o AllPieces(Tail(filetext))

\* The file parser without the call of set_default_params.
parse_params_from_file_nodefaults(file, p) ==
    IF ~file.readable
    THEN [rc |-> -1, p |-> p, msgs |-> {"ERR_param_open"}]
    ELSE parse_lines([rc |-> 0, p |-> p, msgs |-> {}], AllPieces(file.text))

\* params.h:120-192.  parse_params_from_file(filename, p): the value it
\* returns, *p afterwards and the messages it prints.
parse_params_from_file(file, p) ==
    IF ~file.readable
    THEN [rc |-> -1, p |-> p, msgs |-> {"ERR_param_open"}]
    ELSE parse_lines([rc |-> 0, p |-> set_default_params, msgs |-> {}],
                     AllPieces(file.text))

\* The legacy parser with We and Ohd taken from each other's token.
parse_params_from_cli_swapped(av, p) ==
    IF Len(av) < 7
    THEN [rc |-> -1, p |-> set_default_params, msgs |-> {"ERR_cli_args"}]
    ELSE LET p1 == Store(set_default_params, "MAXlevel", av[2])
             p2 == Store(p1, "tmax", av[3])
             p3 == Store(p2, "Ohd", av[4])
             p4 == Store(p3, "We", av[5])
             p5 == Store(p4, "Ohs", av[6])
             p6 == Store(p5, "Ldomain", av[7])
             p7 == StoreIf(Len(av) > 7, p6, "drop_x", av[8])
             p8 == StoreIf(Len(av) > 8, p7, "drop_y", av[9])
             p9 == StoreIf(Len(av) > 9, p8, "impact_velocity", av[10])
         IN  [rc |-> 0, p |-> p9, msgs |-> {}]

\* params.h:203-228.  parse_params_from_cli(argc, argv, p); av[k + 1] is
\* argv[k] and Len(av) is argc.
parse_params_from_cli(av, p) ==
    IF Len(av) < 7
    THEN [rc |-> -1, p |-> set_default_params, msgs |-> {"ERR_cli_args"}]
    ELSE LET p1 == Store(set_default_params, "MAXlevel", av[2])
             p2 == Store(p1, "tmax", av[3])
             p3 == Store(p2, "We", av[4])
             p4 == Store(p3, "Ohd", av[5])
             p5 == Store(p4, "Ohs", av[6])
             p6 == Store(p5, "Ldomain", av[7])
             p7 == StoreIf(Len(av) > 7, p6, "drop_x", av[8])
             p8 == StoreIf(Len(av) > 8, p7, "drop_y", av[9])
             p9 == StoreIf(Len(av) > 9, p8, "impact_velocity", av[10])
         IN  [rc |-> 0, p |-> p9, msgs |-> {}]

(***************************************************************************)
(* The file system and the engine's persistence primitives.                *)
(***************************************************************************)
NoSnap == [exists |-> FALSE, i |-> 0, t |-> 0, field |-> 0]

\* What dump() writes: the fields with the iteration and the time.
Snap(it, time, fld) == [exists |-> TRUE, i |-> it, t |-> time, field |-> fld]

\* "snapshot-%2.1f" of a time: one decimal only.
SnapshotNameCoarse(time) == ((time * TicksE4) \div 1000) * 1000

\* "snapshot-%5.4f" of a time: the time in units of 1e-4.
SnapshotName(time) == time * TicksE4

\* One line of the log: "%d %g %g %g" of iter, timestep, time, ke; the
\* kinetic energy is a function of the fields.
LogRecord(it, timestep, time, fld) ==
    [iter |-> it, dt |-> timestep, time |-> time, ke |-> fld]

\* create_output_directory(dirname): the outcomes <<exists afterwards, rc>>.
\* stat() finds the directory, or mkdir() makes it (only under an existing
\* parent) or fails.
create_output_directory(exists, parent) ==
    IF exists THEN {<<TRUE, 0>>}
    ELSE (IF parent THEN {<<TRUE, 0>>} ELSE {}) \cup {<<FALSE, -1>>}

\* fopen in mode "a": the content is kept.
fopen_a(content) == content

\* fopen(log_path, "w"): the content of the file once opened.
fopen_w(content) == << >>

(***************************************************************************)
(* The scheduler's times.                                                  *)
(***************************************************************************)
\* t <= params.tmax on doubles.
NotAfterTmax(time) == ~FieldNaN(params, "tmax") /\ time <= params.tmax

\* The snapshots event with the configured period params.tsnap.
SnapshotDueTsnap(time) ==
    /\ ~FieldNaN(params, "tsnap") /\ params.tsnap > 0
    /\ time % params.tsnap = 0
    /\ NotAfterTmax(time)

\* event snapshots(t = 0; t += TSNAP; t <= params.tmax) is due at time.
SnapshotDue(time) == time % TSNAP = 0 /\ NotAfterTmax(time)

\* The first time of the snapshots event after time.
NextSnapshot(time) == time - (time % TSNAP) + TSNAP

\* No bounded event has a time left after time: the run ends.
Finished(time) == ~NotAfterTmax(NextSnapshot(time))

\* The timestep the scheduler takes at time: the solver's, cut to hit the
\* next event time exactly.
Timestep(time) == Min(dtcfl, NextSnapshot(time) - time)

\* The events of one iteration are done: end the run or take a step.
AfterEvents(time) == IF Finished(time) THEN "cleanup" ELSE "step"

FileSystem == <<dir_exists, inter_exists, log_exists, log, restart_file, archive>>
Scheduler == <<i, t, dt, field>>
Ghost == <<crash_seen, last_ckpt, start_t, max_logged, fired>>
Input == <<argv, paramfile>>
PostProcess == <<tool_argv, dumps, tool>>
Simulation == <<params, pc, exit_code, log_fp, i, t, dt, field, restored, diag,
                status, dir_exists, inter_exists, log_exists, log, restart_file,
                archive, dtcfl, launches, crash_seen, last_ckpt, start_t,
                max_logged, fired, argv, paramfile, calls>>

(***************************************************************************)
(* The command line and the parameter file, as a user writes them.         *)
(***************************************************************************)
DigitChar == <<"0", "1", "2", "3", "4", "5", "6", "7", "8", "9">>

\* A natural number in decimal.
RECURSIVE NatText(_)
NatText(n) ==
    IF n < 10 THEN <<DigitChar[n + 1]>>
    ELSE NatText(n \div 10) \o <<DigitChar[(n % 10) + 1]>>

IntText(n) == IF n < 0 THEN <<"-">> \o NatText(-n) ELSE NatText(n)

\* A time of n >= 0 ticks of 0.005 in decimal, with three decimals.
TicksText(n) ==
    LET milli == 5 * n
    IN  NatText(milli \div 1000)
        \o <<".", DigitChar[((milli \div 100) % 10) + 1],
                  DigitChar[((milli \div 10) % 10) + 1],
                  DigitChar[(milli % 10) + 1]>>

\* The line "key=value" of a parameter file.
ParamLine(f, value) == KeyName[f] \o <<"=">> \o value

ProgName == <<"d", "r", "o", "p", "I", "m", "p", "a", "c", "t">>
ParamFileName == <<"c", "a", "s", "e", ".", "p", "a", "r", "a", "m", "s">>

\* ./dropImpact case.params
FileArgs == <<ProgName, ParamFileName>>

\* No file of the name argv[1].
NoFile == [exists |-> FALSE, readable |-> FALSE, text |-> << >>]

\* A readable parameter file of the given lines.
ParamFile(lines) == [exists |-> TRUE, readable |-> TRUE, text |-> lines]

\* The parameter file that sets the end time, the snapshot interval and the
\* log interval of configuration c and leaves the rest to the defaults.
FileOf(c) ==
    ParamFile(<< ParamLine("tmax", TicksText(c.tmax)),
                 ParamLine("tsnap", TicksText(c.tsnap)),
                 ParamLine("log_interval", IntText(c.log_interval)) >>)

(***************************************************************************)
(* Configurations and the initial state: the first launch, on a file       *)
(* system without the output directory.                                    *)
(***************************************************************************)
LogIntervals == {0, 1, 2, -2}

\* Configurations of the runs that crash and are launched again; the last
\* one fails validation.
ShortConfigs ==
    { [set_default_params EXCEPT !.tmax = tm, !.tsnap = ts, !.log_interval = li] :
        tm \in {MaxTmax - 2, MaxTmax}, ts \in {2, 3}, li \in LogIntervals }
    \cup { [set_default_params EXCEPT !.tmax = MaxTmax, !.tsnap = 0] }

\* Configurations of the single long launch.
LongConfigs ==
    { [set_default_params EXCEPT !.tmax = LongTmax, !.log_interval = li] :
        li \in {1, 3, 100, -2} }

Running == {"adapt", "statistics", "snapshots", "save_snapshot_archive",
            "step", "cleanup"}

\* No post-processing tool runs and no snapshot file is given to one.
NoTool ==
    /\ tool_argv = << >>
    /\ dumps = << >>
    /\ tool = [pc |-> "none"]

\* The controller at position l of main, before it has done anything.
Controller(l) ==
    /\ pc = l
    /\ exit_code = NoExit
    /\ log_fp = FALSE
    /\ i = 0 /\ t = 0 /\ dt = 1 /\ field = 0
    /\ restored = FALSE
    /\ diag = {}
    /\ status = {}
    /\ start_t = 0
    /\ fired = {}
    /\ calls = << >>

\* The process at position l of main, with no tool at work.
ProcessAt(l) == NoTool /\ Controller(l)

\* The process about to call validate_params on given parameters.
InitProcess ==
    /\ ProcessAt("main_validate")
    /\ argv = FileArgs
    /\ paramfile = NoFile

InitFileSystem ==
    /\ dir_exists = FALSE
    /\ inter_exists = FALSE
    /\ log_exists = FALSE
    /\ log = << >>
    /\ restart_file = NoSnap
    /\ archive = << >>
    /\ last_ckpt = NoSnap
    /\ max_logged = -1
    /\ launches = 1
    /\ crash_seen = FALSE

Init ==
    /\ params = ZeroParams
    /\ argv = FileArgs
    /\ paramfile \in { FileOf(c) : c \in ShortConfigs }
    /\ dtcfl \in 1..MaxDt
    /\ ProcessAt("main")
    /\ InitFileSystem

InitLong ==
    /\ params = ZeroParams
    /\ argv = FileArgs
    /\ paramfile \in { FileOf(c) : c \in LongConfigs }
    /\ dtcfl = 1
    /\ ProcessAt("main")
    /\ InitFileSystem

(***************************************************************************)
(* main(): validation, output setup, launch of the scheduler.              *)
(***************************************************************************)
\* main() that leaves the test of the argument count to the legacy parser.
main_no_usage ==
    /\ pc = "main"
    /\ IF Len(argv) = 2 /\ paramfile.exists
       THEN LET r == parse_params_from_file(paramfile, params)
            IN  /\ params' = r.p
                /\ calls' = Append(calls, "parse_params_from_file")
                /\ IF r.rc # 0
                   THEN /\ diag' = diag \cup r.msgs \cup {"ERR_parse_failed"}
                        /\ pc' = "done" /\ exit_code' = <<1>>
                   ELSE /\ diag' = diag \cup r.msgs
                        /\ pc' = "main_validate" /\ exit_code' = exit_code
       ELSE LET r == parse_params_from_cli(argv, params)
            IN  /\ params' = r.p
                /\ calls' = Append(calls, "parse_params_from_cli")
                /\ diag' = diag \cup r.msgs
                /\ IF r.rc # 0
                   THEN pc' = "done" /\ exit_code' = <<1>>
                   ELSE pc' = "main_validate" /\ exit_code' = exit_code
    /\ UNCHANGED <<PostProcess, Input, log_fp, Scheduler, restored, status, FileSystem,
                   dtcfl, launches, Ghost>>

\* dropImpact.c:167-186.  The parameter source: the file parser for one
\* argument that names an existing file, the legacy parser for six
\* arguments or more, the usage text otherwise; a failure ends the process
\* with status 1.
main ==
    /\ pc = "main"
    /\ IF Len(argv) = 2 /\ paramfile.exists
       THEN LET r == parse_params_from_file(paramfile, params)
            IN  /\ params' = r.p
                /\ calls' = Append(calls, "parse_params_from_file")
                /\ IF r.rc # 0
                   THEN /\ diag' = diag \cup r.msgs \cup {"ERR_parse_failed"}
                        /\ pc' = "done" /\ exit_code' = <<1>>
                   ELSE /\ diag' = diag \cup r.msgs
                        /\ pc' = "main_validate" /\ exit_code' = exit_code
       ELSE IF Len(argv) >= 7
       THEN LET r == parse_params_from_cli(argv, params)
            IN  /\ params' = r.p
                /\ calls' = Append(calls, "parse_params_from_cli")
                /\ diag' = diag \cup r.msgs
                /\ IF r.rc # 0
                   THEN pc' = "done" /\ exit_code' = <<1>>
                   ELSE pc' = "main_validate" /\ exit_code' = exit_code
       ELSE /\ diag' = diag \cup {"Usage"}
            /\ pc' = "done" /\ exit_code' = <<1>>
            /\ UNCHANGED <<params, calls>>
    /\ UNCHANGED <<PostProcess, Input, log_fp, Scheduler, restored, status, FileSystem,
                   dtcfl, launches, Ghost>>

\* validate_params called with its result not looked at.
main_validate_ignored ==
    /\ pc = "main_validate"
    /\ calls' = Append(calls, "validate_params")
    /\ diag' = diag \cup validate_messages(params)
    /\ pc' = "main_output"
    /\ UNCHANGED <<PostProcess, Input, params, exit_code, log_fp, Scheduler, restored, status,
                   FileSystem, dtcfl, launches, Ghost>>

\* The process dies: its memory is gone, the file system stays.
Die ==
    /\ pc' = "crashed"
    /\ exit_code' = NoExit
    /\ log_fp' = FALSE
    /\ i' = 0 /\ t' = 0 /\ dt' = 1 /\ field' = 0
    /\ restored' = FALSE
    /\ diag' = {}
    /\ status' = {}
    /\ start_t' = 0
    /\ fired' = {}
    /\ calls' = << >>

\* 1 << n is defined for an int of IntBits bits.
ShiftDefined(n) == n >= 0 /\ n < IntBits - 1

\* dropImpact.c:193-219.  validate_params; a failure ends the process with
\* status 1; otherwise the domain and the material properties are set:
\* init_grid(1 << params.init_grid_level), where a shift that is not
\* defined kills the process or gives some number of cells.
main_validate ==
    /\ pc = "main_validate"
    /\ \E outcome \in (IF validate_params(params)
                          /\ ~ShiftDefined(params.init_grid_level)
                       THEN {"trap", "go"} ELSE {"go"}) :
         IF outcome = "trap"
         THEN /\ Die
              /\ UNCHANGED <<PostProcess, Input, params, FileSystem, dtcfl, launches,
                             crash_seen, last_ckpt, max_logged>>
         ELSE /\ calls' = Append(calls, "validate_params")
              /\ diag' = diag \cup validate_messages(params)
              /\ IF validate_params(params)
                 THEN pc' = "main_output" /\ exit_code' = exit_code
                 ELSE pc' = "done" /\ exit_code' = <<1>>
              /\ UNCHANGED <<PostProcess, Input, params, log_fp, Scheduler, restored,
                             status, FileSystem, dtcfl, launches, Ghost>>

\* dropImpact.c:227.  create_output_directory(params.output_dir); the value
\* it returns is not looked at.
main_output ==
    /\ pc = "main_output"
    /\ calls' = Append(calls, "create_output_directory")
    /\ \E o \in create_output_directory(dir_exists, TRUE) :
         /\ dir_exists' = o[1]
         /\ diag' = IF o[2] = 0 THEN diag ELSE diag \cup {"WARN_mkdir_output"}
    /\ pc' = "main_open_log"
    /\ UNCHANGED <<PostProcess, Input, params, exit_code, log_fp, Scheduler, restored, status,
                   inter_exists, log_exists, log, restart_file, archive,
                   dtcfl, launches, Ghost>>

\* dropImpact.c:228 with diagnostics.h:30-61.  open_log_files: make the
\* intermediate directory, fopen(log_path, "w"), write the header; the value
\* it returns is not looked at.
open_log_files ==
    /\ pc = "main_open_log"
    /\ calls' = Append(calls, "open_log_files")
    /\ \E o \in create_output_directory(inter_exists, dir_exists) :
         /\ inter_exists' = o[1]
         /\ \E opened \in (IF dir_exists THEN {TRUE, FALSE} ELSE {FALSE}) :
              IF opened
              THEN /\ log_fp' = TRUE
                   /\ log_exists' = TRUE
                   /\ log' = fopen_w(log)
                   /\ diag' = diag
                        \cup (IF o[2] = 0 THEN {} ELSE {"WARN_mkdir_intermediate"})
              ELSE /\ log_fp' = FALSE
                   /\ UNCHANGED <<log_exists, log>>
                   /\ diag' = diag \cup {"ERR_log_open"}
                        \cup (IF o[2] = 0 THEN {} ELSE {"WARN_mkdir_intermediate"})
    /\ pc' = "run"
    /\ UNCHANGED <<PostProcess, Input, params, exit_code, Scheduler, restored, status, dir_exists,
                   restart_file, archive, dtcfl, launches, Ghost>>

(***************************************************************************)
(* The events.                                                             *)
(***************************************************************************)
\* Event init that initializes from scratch whatever restore() returns.
init_always_fresh ==
    /\ pc = "run"
    /\ IF dir_exists /\ restart_file.exists
       THEN /\ i' = restart_file.i
            /\ t' = restart_file.t
            /\ field' = restart_file.field
            /\ restored' = TRUE
       ELSE /\ i' = 0
            /\ t' = 0
            /\ field' = 0
            /\ restored' = FALSE
    /\ calls' = calls \o <<"init", "restore", "refine", "fraction", "velocity">>
    /\ dt' = Timestep(t')
    /\ start_t' = t'
    /\ pc' = "adapt"
    /\ UNCHANGED <<PostProcess, Input, params, exit_code, log_fp, diag, status, FileSystem, dtcfl,
                   launches, crash_seen, last_ckpt, max_logged, fired>>

\* dropImpact.c:235-242 and 255-298.  print_params, run(), event init:
\* restore the restart file, or initialize from scratch at iteration 0.
init ==
    /\ pc = "run"
    /\ IF dir_exists /\ restart_file.exists
       THEN /\ i' = restart_file.i
            /\ t' = restart_file.t
            /\ field' = restart_file.field
            /\ restored' = TRUE
            /\ calls' = calls \o <<"init", "restore">>
       ELSE /\ i' = 0
            /\ t' = 0
            /\ field' = 0
            /\ restored' = FALSE
            /\ calls' = calls \o <<"init", "restore", "refine", "fraction",
                                    "velocity">>
    /\ dt' = Timestep(t')
    /\ start_t' = t'
    /\ pc' = "adapt"
    /\ UNCHANGED <<PostProcess, Input, params, exit_code, log_fp, diag, status, FileSystem, dtcfl,
                   launches, crash_seen, last_ckpt, max_logged, fired>>

\* dropImpact.c:313-340.  event adapt(i++): curvature, adapt_wavelet,
\* unrefine.
adapt ==
    /\ pc = "adapt"
    /\ calls' = calls \o <<"curvature", "adapt_wavelet", "unrefine">>
    /\ pc' = "statistics"
    /\ UNCHANGED <<PostProcess, Input, params, exit_code, log_fp, Scheduler, restored, diag,
                   status, FileSystem, dtcfl, launches, Ghost>>

\* Statistics written at every iteration.
StatisticsDueAlways(iter) == TRUE

\* dropImpact.c:354.  i % params.log_interval == 0, for a non-zero interval.
StatisticsDue(iter) == CRem(iter, params.log_interval) = 0

\* The record goes to stderr every 100 iterations but not at iteration 0.
MirrorDueNotFirst(iter) == iter > 0 /\ iter % StatusEvery = 0

\* diagnostics.h:108.  The record also goes to stderr.
MirrorDue(iter) == iter = 0 \/ iter % StatusEvery = 0

\* diagnostics.h:93-111.  write_statistics(i, t, dt, &params): without an
\* open log only an error message; otherwise one record, written and
\* flushed, and mirrored to stderr when MirrorDue.
write_statistics ==
    IF ~log_fp
    THEN /\ diag' = diag \cup {"ERR_log_not_open"}
         /\ UNCHANGED <<log, status, max_logged>>
    ELSE /\ log' = Append(log, LogRecord(i, dt, t, field))
         /\ max_logged' = IF i > max_logged THEN i ELSE max_logged
         /\ status' = IF MirrorDue(i) THEN status \cup {i} ELSE status
         /\ diag' = diag

\* dropImpact.c:352-357.  event statistics(i++).  With log_interval 0 the
\* test divides by zero, which is undefined: the process is killed, or the
\* test comes out either way.
statistics ==
    /\ pc = "statistics"
    /\ \E outcome \in (IF params.log_interval = 0
                       THEN {"trap", "write", "skip"}
                       ELSE IF StatisticsDue(i) THEN {"write"} ELSE {"skip"}) :
         CASE outcome = "trap" ->
                /\ Die
                /\ UNCHANGED <<log, crash_seen, last_ckpt, max_logged>>
           [] outcome = "write" ->
                /\ write_statistics
                /\ calls' = calls \o <<"statistics", "write_statistics">>
                /\ pc' = IF SnapshotDue(t) THEN "snapshots" ELSE AfterEvents(t)
                /\ UNCHANGED <<exit_code, log_fp, Scheduler, restored,
                               crash_seen, last_ckpt, start_t, fired>>
           [] outcome = "skip" ->
                /\ calls' = Append(calls, "statistics")
                /\ pc' = IF SnapshotDue(t) THEN "snapshots" ELSE AfterEvents(t)
                /\ UNCHANGED <<exit_code, log_fp, Scheduler, restored, Ghost,
                               log, status, diag>>
    /\ UNCHANGED <<PostProcess, Input, params, dir_exists, inter_exists, log_exists, restart_file,
                   archive, dtcfl, launches>>

\* save_snapshot that dumps the restart file only when there is none yet.
snapshots_restart_once ==
    /\ pc = "snapshots"
    /\ calls' = Append(calls, "save_snapshot")
    /\ fired' = fired \cup {t}
    /\ IF dir_exists
       THEN /\ restart_file' =
                 IF restart_file.exists THEN restart_file ELSE Snap(i, t, field)
            /\ pc' = "save_snapshot_archive"
            /\ exit_code' = exit_code
       ELSE /\ pc' = "done"
            /\ exit_code' = <<1>>
            /\ UNCHANGED restart_file
    /\ UNCHANGED <<PostProcess, Input, params, log_fp, Scheduler, restored, diag, status,
                   dir_exists, inter_exists, log_exists, log, archive, dtcfl,
                   launches, crash_seen, last_ckpt, start_t, max_logged>>

\* dropImpact.c:370-372 with diagnostics.h:120-125.  event snapshots fires
\* and save_snapshot dumps the restart file.
snapshots ==
    /\ pc = "snapshots"
    /\ calls' = Append(calls, "save_snapshot")
    /\ fired' = fired \cup {t}
    /\ IF dir_exists
       THEN /\ restart_file' = Snap(i, t, field)
            /\ pc' = "save_snapshot_archive"
            /\ exit_code' = exit_code
       ELSE /\ pc' = "done"
            /\ exit_code' = <<1>>
            /\ UNCHANGED restart_file
    /\ UNCHANGED <<PostProcess, Input, params, log_fp, Scheduler, restored, diag, status,
                   dir_exists, inter_exists, log_exists, log, archive, dtcfl,
                   launches, crash_seen, last_ckpt, start_t, max_logged>>

\* diagnostics.h:127-131.  save_snapshot dumps the time-stamped snapshot
\* and returns.
save_snapshot_archive ==
    /\ pc = "save_snapshot_archive"
    /\ calls' = calls
    /\ IF inter_exists
       THEN /\ archive' =
                 [n \in DOMAIN archive \cup {SnapshotName(t)} |->
                    IF n = SnapshotName(t) THEN Snap(i, t, field) ELSE archive[n]]
            /\ last_ckpt' = Snap(i, t, field)
            /\ pc' = AfterEvents(t)
            /\ exit_code' = exit_code
       ELSE /\ pc' = "done"
            /\ exit_code' = <<1>>
            /\ UNCHANGED <<archive, last_ckpt>>
    /\ UNCHANGED <<PostProcess, Input, params, log_fp, Scheduler, restored, diag, status,
                   dir_exists, inter_exists, log_exists, log, restart_file,
                   dtcfl, launches, crash_seen, start_t, max_logged, fired>>

\* dropImpact.c:242.  run(): the solver advances the fields by the timestep
\* and the scheduler goes to the next iteration.
step ==
    /\ pc = "step"
    /\ calls' = << >>
    /\ i' = i + 1
    /\ t' = t + dt
    /\ field' = field + 1
    /\ dt' = Timestep(t')
    /\ pc' = "adapt"
    /\ UNCHANGED <<PostProcess, Input, params, exit_code, log_fp, restored, diag, status,
                   FileSystem, dtcfl, launches, Ghost>>

\* diagnostics.h:139-145.  close_log_files, in a step that also prints the
\* messages said.
close_log_files(said) ==
    IF log_fp
    THEN log_fp' = FALSE /\ diag' = diag \cup {"Log file closed"} \cup said
    ELSE log_fp' = log_fp /\ diag' = diag \cup said

\* Event cleanup that leaves the log open.
cleanup_keeps_log_open ==
    /\ pc = "cleanup"
    /\ calls' = Append(calls, "cleanup")
    /\ log_fp' = log_fp
    /\ diag' = diag \cup {"Simulation completed"}
    /\ pc' = "done"
    /\ exit_code' = <<0>>
    /\ UNCHANGED <<PostProcess, Input, params, Scheduler, restored, status, FileSystem, dtcfl,
                   launches, Ghost>>

\* dropImpact.c:379-382 and 244.  event cleanup(t = end), then main
\* returns 0.
cleanup ==
    /\ pc = "cleanup"
    /\ calls' = calls \o <<"cleanup", "close_log_files">>
    /\ close_log_files({"Simulation completed"})
    /\ pc' = "done"
    /\ exit_code' = <<0>>
    /\ UNCHANGED <<PostProcess, Input, params, Scheduler, restored, status, FileSystem, dtcfl,
                   launches, Ghost>>

(***************************************************************************)
(* The environment: a crash of the process, and a new launch of the        *)
(* program with the same parameters on the same output directory.          *)
(***************************************************************************)
crash ==
    /\ pc \notin {"done", "crashed"}
    /\ Die
    /\ UNCHANGED <<PostProcess, Input, params, FileSystem, dtcfl, launches, crash_seen, last_ckpt,
                   max_logged>>

relaunch ==
    /\ pc \in {"done", "crashed"}
    /\ launches < MaxLaunches
    /\ launches' = launches + 1
    /\ crash_seen' = (pc = "crashed")
    /\ pc' = "main"
    /\ params' = ZeroParams
    /\ exit_code' = NoExit
    /\ log_fp' = FALSE
    /\ i' = 0 /\ t' = 0 /\ dt' = 1 /\ field' = 0
    /\ restored' = FALSE
    /\ diag' = {}
    /\ status' = {}
    /\ start_t' = 0
    /\ fired' = {}
    /\ calls' = << >>
    /\ UNCHANGED <<PostProcess, Input, FileSystem, dtcfl, last_ckpt, max_logged>>

\* The configurations of ShortConfigs that validate_params rejects.
InvalidConfigs == { c \in ShortConfigs : ~validate_params(c) }

\* A new launch on the same output directory after the parameters were
\* edited into a configuration that validate_params rejects.
relaunch_edited ==
    /\ pc \in {"done", "crashed"}
    /\ launches < MaxLaunches
    /\ paramfile \notin { FileOf(c) : c \in InvalidConfigs }
    /\ paramfile' \in { FileOf(c) : c \in InvalidConfigs }
    /\ params' = ZeroParams
    /\ launches' = launches + 1
    /\ crash_seen' = (pc = "crashed")
    /\ pc' = "main"
    /\ exit_code' = NoExit
    /\ log_fp' = FALSE
    /\ i' = 0 /\ t' = 0 /\ dt' = 1 /\ field' = 0
    /\ restored' = FALSE
    /\ diag' = {}
    /\ status' = {}
    /\ start_t' = 0
    /\ fired' = {}
    /\ calls' = << >>
    /\ UNCHANGED <<PostProcess, argv, FileSystem, dtcfl, last_ckpt, max_logged>>

Launch ==
    \/ main
    \/ main_validate
    \/ main_output
    \/ open_log_files
    \/ init
    \/ adapt
    \/ statistics
    \/ snapshots
    \/ save_snapshot_archive
    \/ step
    \/ cleanup

Next == Launch \/ crash \/ relaunch

\* What a launch does once its parameters are validated.
Configured ==
    \/ main_output
    \/ open_log_files
    \/ init
    \/ adapt
    \/ statistics
    \/ snapshots
    \/ save_snapshot_archive
    \/ step
    \/ cleanup

\* Parameter files that set the log interval and the initial grid level,
\* for a short run.
GridLevels == {-1, 0, 6, IntBits - 1}
LevelFiles ==
    { ParamFile(<< ParamLine("tmax", TicksText(MaxTmax - 2)),
                   ParamLine("log_interval", IntText(li)),
                   ParamLine("init_grid_level", IntText(gl)) >>) :
        li \in {0, 1, -2}, gl \in GridLevels }

InitLevels ==
    /\ params = ZeroParams
    /\ argv = FileArgs
    /\ paramfile \in LevelFiles
    /\ dtcfl \in 1..MaxDt
    /\ ProcessAt("main")
    /\ InitFileSystem

\* One launch on each of these files.
SpecLevels == InitLevels /\ [][Launch]_vars

\* One launch that the environment does not kill: after validation, main
\* and the scheduler go on as long as they have something to do.
SpecFair == Init /\ [][Launch]_vars /\ WF_vars(Configured)

\* Launches of the program on one output directory, with crashes.
Spec == Init /\ [][Next]_vars

\* The same, where the parameters can be edited between two launches.
NextEdit == Next \/ relaunch_edited

SpecEdit == Init /\ [][NextEdit]_vars

\* One long launch that does not crash.
SpecLong == InitLong /\ [][Launch]_vars


(***************************************************************************)
(* validate_params on its own: the parameter values a parameter file or    *)
(* the command line can produce (atoi and atof accept any number, atof     *)
(* also "nan"), each field on both sides of the bounds validate_params     *)
(* tests.                                                                  *)
(***************************************************************************)
ValidateInputs ==
    { [set_default_params EXCEPT
         !.CaseNo = c, !.We = we, !.Ohd = ohd, !.Ohs = ohs, !.rho_ratio = rho,
         !.Ldomain = ld, !.drop_radius = dr,
         !.MAXlevel = lv[1], !.MINlevel = lv[2],
         !.fErr = tol[1], !.KErr = tol[2], !.VelErr = tol[3],
         !.tmax = tm, !.tsnap = ts, !.nan = n] :
        c \in {999, 1000, 10000}, we \in {0, 10}, ohd \in {-5, 5},
        ohs \in {0, 1}, rho \in {0, 1}, ld \in {20, 80}, dr \in {0, 10},
        lv \in {<<10, 4>>, <<3, 4>>, <<16, 1>>},
        tol \in {<<1, 1, 1>>, <<0, 1, 1>>, <<1, 0, 1>>, <<1, 1, -1>>},
        tm \in {0, 4}, ts \in {0, 2, 6},
        n \in {{}, {"tsnap"}, {"tmax"}} }

InitValidate ==
    /\ params \in ValidateInputs
    /\ dtcfl = 1
    /\ InitProcess
    /\ InitFileSystem

\* validate_params applied to every input.
SpecValidate == InitValidate /\ [][main_validate]_vars

(***************************************************************************)
(* validate_params on configurations that differ from a valid one in one   *)
(* field.                                                                  *)
(***************************************************************************)
\* Valid configurations: the defaults, and a second one.
ValidBases ==
    { set_default_params,
      [set_default_params EXCEPT !.CaseNo = 2000, !.We = 4, !.Ldomain = 40,
                                 !.MAXlevel = 8, !.MINlevel = 5,
                                 !.tmax = 400, !.tsnap = 20] }

\* The values one field is changed to: f, its value, f is NaN.
FieldChanges ==
    ({"CaseNo"} \X {999, 5000, 10000} \X {FALSE})
    \cup ({"We", "Ohd", "Ohs", "rho_ratio"} \X {-1, 0, 2} \X {FALSE})
    \cup ({"Ldomain"} \X {-80, 10, 20, 100} \X {FALSE})
    \cup ({"drop_radius"} \X {-10, 0, 5, 40, 45} \X {FALSE})
    \cup ({"MAXlevel"} \X {3, 12, 16} \X {FALSE})
    \cup ({"MINlevel"} \X {1, 2, 11} \X {FALSE})
    \cup ({"fErr", "KErr", "VelErr"} \X {-1, 0, 2} \X {FALSE})
    \cup ({"tmax"} \X {-4, 0, 1, 1000} \X {FALSE})
    \cup ({"tsnap"} \X {-2, 0, 1, 900} \X {FALSE})
    \cup ({"tmax", "tsnap"} \X {0} \X {TRUE})

SingleFieldChanges ==
    { [b EXCEPT ![c[1]] = c[2], !.nan = IF c[3] THEN {c[1]} ELSE {}] :
        b \in ValidBases, c \in FieldChanges }

InitSingle ==
    /\ params \in SingleFieldChanges
    /\ dtcfl = 1
    /\ InitProcess
    /\ InitFileSystem

\* validate_params applied to every single-field change.
SpecSingle == InitSingle /\ [][main_validate]_vars

(***************************************************************************)
(* main() from the command line to the start of the scheduler, on command  *)
(* lines of every shape and parameter files of every kind of line.         *)
(***************************************************************************)
\* The tokens tried at each position of the legacy command line.
TokenChoices ==
    << {<<"9">>, <<"1", "2">>},
       {<<"0", ".", "0", "1">>, <<"0", ".", "0", "2", "5">>},
       {<<"5">>, <<"-", "1">>},
       {<<"1", "e", "-", "2">>, <<"0">>},
       {<<"1", "e", "-", "5">>},
       {<<"4">>, <<"2">>},
       {<<"2">>},
       {<<"1", ".", "5">>},
       {<<"-", "2">>},
       {<<"7">>} >>

MaxTokens == Len(TokenChoices)

\* The command lines of n tokens after the program name.
RECURSIVE CommandLines(_)
CommandLines(n) ==
    IF n = 0 THEN { <<ProgName>> }
    ELSE { Append(av, tk) : av \in CommandLines(n - 1), tk \in TokenChoices[n] }

\* The parameter file that sets the keys of the legacy command line av to
\* the text of its tokens, in the order of the command line.
PositionalNames ==
    <<"MAXlevel", "tmax", "We", "Ohd", "Ohs", "Ldomain", "drop_x", "drop_y",
      "impact_velocity">>

ParityFile(av) ==
    ParamFile([k \in 1..Min(Len(av) - 1, Len(PositionalNames)) |->
                 ParamLine(PositionalNames[k], av[k + 1])])

\* A comment of LineBuf - 1 characters.
LongComment == <<"#">> \o [k \in 1..(LineBuf - 2) |-> "-"]

\* Lines of a parameter file: assignments, comments, blank lines, lines
\* without '=', unknown keys, and a comment longer than the line buffer
\* that goes on with the text of an assignment.
FileLines ==
    { <<"W", "e", "=", "2", "0">>,
      <<" ", "W", "e", " ", "=", " ", "5", " ", "#", " ", "d", "r", "o", "p">>,
      <<"W", "e", "=">>,
      <<"t", "m", "a", "x", "=", "0", ".", "0", "1">>,
      <<"#", " ", "W", "e", "=", "3">>,
      << >>,
      <<" ", "\t">>,
      <<"W", "e", " ", "7">>,
      <<"f", "o", "o", "=", "1">>,
      <<"w", "e", "=", "1">>,
      <<"M", "A", "X", "l", "e", "v", "e", "l", "=", "8", ".", "5">>,
      <<"o", "u", "t", "p", "u", "t", "_", "d", "i", "r", "=", "o", "u", "t">>,
      <<"=", "5">>,
      <<"t", "s", "n", "a", "p", "=", "n", "a", "n">>,
      <<"O", "h", "d", "=", "1", "e", "-", "2", "=", "3">> }
    \cup { LongComment \o <<"W", "e", "=", "0">> }

MaxLines == 2

\* The files of at most n lines.
RECURSIVE FileTexts(_)
FileTexts(n) ==
    IF n = 0 THEN { << >> }
    ELSE FileTexts(n - 1)
         \cup { Append(tx, l) : tx \in FileTexts(n - 1), l \in FileLines }

\* A command line with the file that its first argument names.
MainInputs ==
    { <<av, NoFile>> : av \in UNION { CommandLines(n) : n \in 0..(MaxTokens - 5) } }
    \cup { <<av, ParityFile(av)>> :
              av \in UNION { CommandLines(n) : n \in (MaxTokens - 4)..MaxTokens } }
    \cup { <<FileArgs, [exists |-> TRUE, readable |-> FALSE, text |-> << >>]>>,
           <<FileArgs, NoFile>> }
    \cup { <<FileArgs, ParamFile(tx)>> : tx \in FileTexts(MaxLines) }

InitMain ==
    /\ params = ZeroParams
    /\ \E inp \in MainInputs : argv = inp[1] /\ paramfile = inp[2]
    /\ dtcfl = 1
    /\ ProcessAt("main")
    /\ InitFileSystem

NextMain == main \/ main_validate \/ main_output \/ open_log_files \/ init

SpecMain == InitMain /\ [][NextMain]_vars

(***************************************************************************)
(* postProcess/getFootPrint.c and postProcess/getFacet.c: the offline      *)
(* tools.  A snapshot carries its time and its cells in the order of the   *)
(* grid; a cell is its centre (x, y), its size Delta, its volume fraction  *)
(* f and what facets() reconstructs in it: the number n of end points and  *)
(* the ordinates e0, e1 of the two ends.  x and the cutoff are in tenths,  *)
(* y, Delta and heights in quarters, e0 and e1 in halves of a cell (-1, 0, *)
(* 1 for -0.5, 0, 0.5) and f in millionths.                                *)
(*                                                                         *)
(* Engine contract used: restore(file) returns false and builds no grid    *)
(* when the file cannot be opened; what a traversal does when no grid was  *)
(* built is not defined by the tools (the process traps or visits no       *)
(* cell).                                                                  *)
(***************************************************************************)
MaxCells == 3         \* cells of a snapshot
SnapshotSize == 256   \* char snapshot[256] of footprint_config
FilenameSize == 80    \* char filename[80] of getFacet.c
FEps == 1             \* const double eps = 1e-6, in millionths
XUnits == 10          \* units of x in 1

Cell(cx, cy, d, vof, np, end0, end1) ==
    [x |-> cx, y |-> cy, Delta |-> d, f |-> vof, n |-> np, e0 |-> end0, e1 |-> end1]

\* Kinds of cell: interfacial cells on both sides of the cutoffs and on
\* one, at several heights; a cell at eps, a cell whose facet has one end
\* point only, a cell below the axis line.
CellKinds ==
    { Cell(2, 4, 4, 500000, 2, 1, 0),
      Cell(10, 12, 4, 500000, 2, -1, -1),
      Cell(17, 20, 8, 999998, 2, 0, 1),
      Cell(2, 8, 4, FEps, 2, 1, 1),
      Cell(10, 24, 4, 500000, 1, 1, 1),
      Cell(2, -4, 4, 500000, 2, 0, 0) }

\* The visiting orders of n cells.
Orders(n) == { o \in [1..n -> 1..n] : \A a, b \in 1..n : o[a] = o[b] => a = b }

interface_cell(vof_value) == vof_value > FEps /\ vof_value < 1000000 - FEps

segment_midpoint(cell_center, delta, end0, end1) ==
    cell_center + (delta * (end0 + end1)) \div 4

\* x >= x_cutoff for a cutoff c: false when c is NaN.
AtOrBeyond(cx, c) == ~c.nan /\ cx >= c.v

\* The body of the foreach of compute_maximum_interface_height without its
\* test of the running maximum.
visit_cell_last(y_max, c, x_cutoff) ==
    IF AtOrBeyond(c.x, x_cutoff) \/ ~interface_cell(c.f) THEN y_max
    ELSE IF c.n # 2 THEN y_max
    ELSE segment_midpoint(c.y, c.Delta, c.e0, c.e1)

\* The body of the foreach of compute_maximum_interface_height for cell c.
visit_cell(y_max, c, x_cutoff) ==
    IF AtOrBeyond(c.x, x_cutoff) \/ ~interface_cell(c.f) THEN y_max
    ELSE IF c.n # 2 THEN y_max
    ELSE IF segment_midpoint(c.y, c.Delta, c.e0, c.e1) > y_max
         THEN segment_midpoint(c.y, c.Delta, c.e0, c.e1)
         ELSE y_max

\* The foreach over the cells order[from..to] of the grid, in that order,
\* from the running maximum y_max.
RECURSIVE foreach(_, _, _, _, _, _)
foreach(y_max, cells, order, from, to, x_cutoff) ==
    IF from > to THEN y_max
    ELSE foreach(visit_cell(y_max, cells[order[from]], x_cutoff),
                 cells, order, from + 1, to, x_cutoff)

\* compute_maximum_interface_height(x_cutoff) on the restored cells, when
\* the traversal visits them in the given order and the first `share` of
\* them belong to another process or thread of the max-reduction: each
\* part starts from y_max = 0. and the parts are combined by max.
compute_maximum_interface_height(cells, order, share, x_cutoff) ==
    Max(foreach(0, cells, order, 1, share, x_cutoff),
        foreach(0, cells, order, share + 1, Len(cells), x_cutoff))

\* The shares of the cells one part of the reduction can have, the other
\* part having at least one cell.
Shares(cells) == 0..Max(Len(cells) - 1, 0)

\* The double that atof gives, in tenths.
Cutoff(d) ==
    IF d.nan THEN [nan |-> TRUE, v |-> 0]
    ELSE [nan |-> FALSE,
          v |-> IF d.e >= 0 THEN d.m * Pow10(d.e) * XUnits
                ELSE (d.m * XUnits) \div Pow10(-d.e)]

\* A tool process at the start of its main.
ToolStart(name) ==
    [name |-> name, pc |-> "main", exit_code |-> NoExit, err |-> {},
     cfg |-> [snapshot |-> << >>, x_cutoff |-> Cutoff(Decimal(0, 0))],
     restores |-> 0, grid |-> FALSE, t |-> 0, cells |-> << >>,
     y_max |-> 0, out |-> << >>]

ToolEnds(code) == [tool EXCEPT !.pc = "done", !.exit_code = <<code>>]
ToolTraps == [tool EXCEPT !.pc = "crashed"]

\* restore(file = name) in the tool process tl.
restore(tl, name) ==
    IF name \in DOMAIN dumps
    THEN [tl EXCEPT !.restores = @ + 1, !.grid = TRUE,
                    !.t = dumps[name].t, !.cells = dumps[name].cells]
    ELSE tl

\* getFootPrint: main up to the return of parse_arguments.
parse_arguments ==
    /\ tool.pc = "main" /\ tool.name = "getFootPrint"
    /\ IF Len(tool_argv) # 3
       THEN tool' = [ToolEnds(1) EXCEPT !.err = @ \cup {"ERR_arguments", "Usage"}]
       ELSE IF ~Cutoff(atof(tool_argv[3])).nan /\ Cutoff(atof(tool_argv[3])).v <= 0
       THEN tool' = [ToolEnds(1) EXCEPT
                       !.err = @ \cup {"ERR_xCutoff"},
                       !.cfg = [snapshot |-> SubSeq(tool_argv[2], 1,
                                    Min(Len(tool_argv[2]), SnapshotSize - 1)),
                                x_cutoff |-> Cutoff(atof(tool_argv[3]))]]
       ELSE tool' = [tool EXCEPT
                       !.pc = "restore_snapshot",
                       !.cfg = [snapshot |-> SubSeq(tool_argv[2], 1,
                                    Min(Len(tool_argv[2]), SnapshotSize - 1)),
                                x_cutoff |-> Cutoff(atof(tool_argv[3]))]]
    /\ UNCHANGED <<tool_argv, dumps, Simulation>>

\* getFootPrint: restore_snapshot and configure_vof_boundary.
restore_snapshot ==
    /\ tool.pc = "restore_snapshot"
    /\ tool' = [restore(tool, tool.cfg.snapshot) EXCEPT !.pc = "compute"]
    /\ UNCHANGED <<tool_argv, dumps, Simulation>>

\* getFootPrint: y_max = compute_maximum_interface_height(cfg.x_cutoff).
compute ==
    /\ tool.pc = "compute"
    /\ IF tool.grid
       THEN \E order \in Orders(Len(tool.cells)), share \in Shares(tool.cells) :
              tool' = [tool EXCEPT
                         !.pc = "emit_footprint",
                         !.y_max = compute_maximum_interface_height(
                                       tool.cells, order, share, tool.cfg.x_cutoff)]
       ELSE \/ tool' = ToolTraps
            \/ tool' = [tool EXCEPT !.pc = "emit_footprint", !.y_max = 0]
    /\ UNCHANGED <<tool_argv, dumps, Simulation>>

\* getFootPrint: emit_footprint(t, y_max) and return 0.
emit_footprint ==
    /\ tool.pc = "emit_footprint"
    /\ tool' = [ToolEnds(0) EXCEPT !.out = Append(@, <<tool.t, tool.y_max>>)]
    /\ UNCHANGED <<tool_argv, dumps, Simulation>>

\* The segments output_facets writes: one for each interfacial cell whose
\* facet has two end points, in the order of the grid.
Facets(cells) ==
    SelectSeq(cells, LAMBDA c : interface_cell(c.f) /\ c.n = 2)

\* getFacet: main.  sprintf writes the name and its terminator into
\* filename[80]: a longer name overruns the array, and then the process
\* traps or goes on with the name.
getFacet ==
    /\ tool.pc = "main" /\ tool.name = "getFacet"
    /\ IF Len(tool_argv) # 2
       THEN tool' = [ToolEnds(1) EXCEPT !.err = @ \cup {"ERR_arguments", "Usage"}]
       ELSE \/ /\ Len(tool_argv[2]) + 1 > FilenameSize
               /\ tool' = ToolTraps
            \/ /\ restore(tool, tool_argv[2]).grid
               /\ tool' = [restore(tool, tool_argv[2]) EXCEPT
                             !.pc = "done", !.exit_code = <<0>>,
                             !.out = Facets(dumps[tool_argv[2]].cells)]
            \/ /\ ~restore(tool, tool_argv[2]).grid
               /\ \/ tool' = ToolTraps
                  \/ tool' = ToolEnds(0)
    /\ UNCHANGED <<tool_argv, dumps, Simulation>>

\* Names of snapshot files: one that exists, one that does not, and one
\* that exists and does not fit filename[80].
SnapName == <<"s", "n", "a", "p">>
MissingName == <<"n", "o", "n", "e">>
LongName == [k \in 1..FilenameSize |-> "s"]
DumpTime == 3

\* Texts given as the cutoff.
CutoffTexts ==
    { <<"1", ".", "5">>, <<"2">>, <<"0">>, <<"-", "1">>, <<"n", "a", "n">>, <<"x">> }

\* Command lines of the two tools.
ToolCommandLines ==
    { <<"getFootPrint", av>> : av \in
        { <<SnapName>>, <<SnapName, SnapName>>,
          <<SnapName, SnapName, <<"1", ".", "5">>, <<"7">> >> }
        \cup { <<SnapName, SnapName, c>> : c \in CutoffTexts }
        \cup { <<SnapName, MissingName, c>> : c \in {<<"2">>, <<"0">>} } }
    \cup
    { <<"getFacet", av>> : av \in
        { <<SnapName>>, <<SnapName, SnapName>>, <<SnapName, MissingName>>,
          <<SnapName, LongName>>, <<SnapName, SnapName, <<"1", ".", "5">> >> } }

\* The snapshots: every field of MaxCells cells.
Fields == [1..MaxCells -> CellKinds]

\* No simulation runs.
NoSimulation ==
    /\ params = ZeroParams
    /\ argv = << >>
    /\ paramfile = NoFile
    /\ dtcfl = 1
    /\ Controller("none")
    /\ InitFileSystem

InitTools ==
    /\ NoSimulation
    /\ \E cl \in ToolCommandLines :
         /\ tool = ToolStart(cl[1])
         /\ tool_argv = cl[2]
    /\ \E fd \in Fields :
         dumps = [nm \in {SnapName, LongName} |-> [t |-> DumpTime, cells |-> fd]]

NextTools ==
    parse_arguments \/ restore_snapshot \/ compute \/ emit_footprint \/ getFacet

SpecTools == InitTools /\ [][NextTools]_vars

(***************************************************************************)
(* Claims.                                                                 *)
(***************************************************************************)
\* The events of the current iteration up to statistics have run.
AfterStatistics == {"snapshots", "save_snapshot_archive", "step", "cleanup"}

\* C1.  If the log file cannot be opened at controller start, the failure
\* is fatal: the launch never enters the scheduler loop (no step,
\* statistics or checkpoint callback fires) and never exits with status 0.
C1_LogOpenFailureIsFatal ==
    "ERR_log_open" \in diag => pc \notin Running /\ exit_code # <<0>>

\* C2.  If the output directory cannot be created, the launch ends with a
\* non-zero status before any simulation time is advanced; it never reaches
\* Running and never exits with status 0.
C2_OutputDirFailureIsFatal ==
    "WARN_mkdir_output" \in diag => pc \notin Running /\ exit_code # <<0>> /\ t = 0

IsPrefix(a, b) == Len(a) <= Len(b) /\ SubSeq(b, 1, Len(a)) = a

\* C3.  The persistent log is append-only across launches: no step of any
\* launch removes or overwrites a record; the log at any moment is a prefix
\* of the log at every later moment.
C3_LogAppendOnly == [][IsPrefix(log, log')]_vars

Count(it) == Cardinality({k \in 1..Len(log) : log[k].iter = it})

\* n >= 0 is a multiple of m.
IsMultiple(n, m) == \E k \in (-n)..n : n = k * m

\* C5 as stated.  Persistence is not throttled: for every scheduler step i
\* with the log open, the statistics callback appends exactly one record
\* for iteration i, whatever the configured log interval.
C5_EveryStepRecorded ==
    (pc \in AfterStatistics /\ log_fp) => Count(i) = 1

\* C5, amended.  Persistence is sampled by the configured log interval: for
\* a non-zero log_interval and the log open, the statistics callback of
\* step i appends exactly one record for iteration i, as the last record,
\* when i is a multiple of log_interval, and appends none otherwise.
C5_RecordedEveryLogInterval ==
    (pc \in AfterStatistics /\ log_fp /\ params.log_interval # 0) =>
        IF IsMultiple(i, params.log_interval)
        THEN Count(i) = 1 /\ log[Len(log)] = LogRecord(i, dt, t, field)
        ELSE Count(i) = 0

\* C5, its case: with log_interval 2, step 1 was skipped and step 2 has
\* been recorded.
C5_Witness ==
    /\ pc \in AfterStatistics /\ log_fp
    /\ params.log_interval = 2 /\ i = 2
    /\ Len(log) = 2 /\ log[2].iter = 2

\* C6 as stated.  A step's record is mirrored to the status stream when,
\* and only when, its iteration is 0 or a multiple of 100, for every
\* configured log interval (here with the log open).
C6_MirroredEvery100 ==
    (pc \in AfterStatistics /\ log_fp) =>
        (i \in status <=> IsMultiple(i, 100))

\* C6, amended.  A step's record is mirrored to the status stream when, and
\* only when, the step is recorded in the persistent log (the log is open
\* and the iteration is a multiple of log_interval) and its iteration is 0
\* or a multiple of 100; no other iteration has a status line.
C6_MirroredWhenRecorded ==
    /\ pc \in AfterStatistics =>
         (i \in status <=> (log_fp /\ Count(i) = 1 /\ IsMultiple(i, 100)))
    /\ \A j \in status : IsMultiple(j, 100) /\ j <= i

\* C6, its case: iterations 0, 100 and 200 have been mirrored.
C6_Witness ==
    pc \in AfterStatistics /\ i = 200 /\ status = {0, 100, 200}

C8_RestartEqualsNewestArchive ==
    [][ /\ (pc = "save_snapshot_archive" /\ pc' \in {"step", "cleanup"}) =>
             /\ restart_file' = Snap(i, t, field)
             /\ \E n \in DOMAIN archive' :
                  /\ \A m \in DOMAIN archive' : archive'[m].t <= archive'[n].t
                  /\ archive'[n] = restart_file'
        /\ \A n \in DOMAIN archive :
             /\ n \in DOMAIN archive'
             /\ archive'[n] # archive[n] => archive[n].t = t
      ]_vars

\* C8, its case: a second checkpoint has completed.
C8_Witness ==
    /\ pc \in {"step", "cleanup"}
    /\ Cardinality(DOMAIN archive) >= 2
    /\ last_ckpt = Snap(i, t, field)
    /\ restart_file = last_ckpt

\* The launch resumes: event init has run in a launch that follows a crash
\* with a completed checkpoint on disk.
ResumeAfterCrash ==
    pc = "run" /\ pc' = "adapt" /\ crash_seen /\ last_ckpt.exists

\* C9 as stated.  After a crash with at least one completed checkpoint the
\* next launch restores the FieldState and the time of the most recent
\* completed checkpoint.
C9_RestoresLastCompleted ==
    [][ResumeAfterCrash => restored' /\ Snap(i', t', field') = last_ckpt]_vars

\* C9, amended.  After a crash with at least one completed checkpoint the
\* next launch restores the FieldState, iteration and time of the canonical
\* restart snapshot written last: that of the most recent completed
\* checkpoint, or of the checkpoint the crash interrupted between its two
\* writes; never an older one and never a fresh initialization, so the time
\* at resume is never below the latest completed checkpoint.
C9_RestoresLastRestart ==
    [][ResumeAfterCrash =>
          /\ restored'
          /\ Snap(i', t', field') = restart_file
          /\ t' >= last_ckpt.t
          /\ (t' = last_ckpt.t => Snap(i', t', field') = last_ckpt)
          /\ \A n \in DOMAIN archive : archive[n].t <= t'
      ]_vars

\* C9, its case: a launch after a crash has just resumed from a checkpoint
\* later than the first.
C9_Witness ==
    /\ crash_seen /\ restored /\ pc = "adapt" /\ fired = {}
    /\ last_ckpt.exists /\ t > 0
    /\ t = last_ckpt.t

\* x > 0 for a double field: false for NaN.
Positive(p, f) == ~FieldNaN(p, f) /\ p[f] > 0

\* The invariants of SimulationParams that p violates, by the name of the
\* diagnostic of each.
ViolatedInvariants(p) ==
    { e \in ValidationErrors :
        \/ e = "ERR_CaseNo" /\ p.CaseNo \notin 1000..9999
        \/ e = "ERR_We" /\ ~Positive(p, "We")
        \/ e = "ERR_Ohd" /\ ~Positive(p, "Ohd")
        \/ e = "ERR_Ohs" /\ ~Positive(p, "Ohs")
        \/ e = "ERR_rho_ratio" /\ ~Positive(p, "rho_ratio")
        \/ e = "ERR_Ldomain"
             /\ ~(~FieldNaN(p, "Ldomain") /\ ~FieldNaN(p, "drop_radius")
                  /\ p.Ldomain > 2 * p.drop_radius)
        \/ e = "ERR_drop_radius" /\ ~Positive(p, "drop_radius")
        \/ e = "ERR_MAXlevel" /\ ~(p.MAXlevel >= p.MINlevel)
        \/ e = "ERR_MINlevel" /\ ~(p.MINlevel >= 2)
        \/ e = "ERR_tolerances"
             /\ ~(Positive(p, "fErr") /\ Positive(p, "KErr") /\ Positive(p, "VelErr"))
        \/ e = "ERR_tmax" /\ ~Positive(p, "tmax")
        \/ e = "ERR_tsnap"
             /\ ~(Positive(p, "tsnap") /\ ~FieldNaN(p, "tmax")
                  /\ p.tsnap <= p.tmax) }

\* C10.  validate reports exactly the set of violated invariants of the
\* data model and does not stop at the first: every violated invariant
\* yields its diagnostic, none is dropped, no other is reported, and the
\* result is "valid" if and only if no invariant is violated.
C10_ValidateReportsAllViolations ==
    pc # "main_validate" =>
        /\ diag \cap ValidationErrors = ViolatedInvariants(params)
        /\ (pc = "main_output") <=> (ViolatedInvariants(params) = {})

\* C10 for parameters without NaN, where validate_params reports exactly
\* the violated invariants.
C10_ExactWithoutNaN ==
    (pc # "main_validate" /\ params.nan = {}) =>
        /\ diag \cap ValidationErrors = ViolatedInvariants(params)
        /\ (pc = "main_output") <=> (ViolatedInvariants(params) = {})

\* C11.  Starting from a valid configuration and changing a single field so
\* that one invariant is broken, validate reports exactly that one
\* violation category and no other.
C11_SingleViolationReported ==
    (pc # "main_validate" /\ Cardinality(ViolatedInvariants(params)) = 1) =>
        diag \cap ValidationErrors = ViolatedInvariants(params)

\* C11 for changes to a number: exactly the broken invariants are reported,
\* one category for every single-field change but tmax <= 0, which breaks
\* tmax > 0 and tsnap <= tmax together.
C11_ExactWithoutNaN ==
    (pc # "main_validate" /\ params.nan = {}) =>
        /\ diag \cap ValidationErrors = ViolatedInvariants(params)
        /\ Cardinality(ViolatedInvariants(params)) <= 2
        /\ Cardinality(ViolatedInvariants(params)) = 2 =>
             ViolatedInvariants(params) = {"ERR_tmax", "ERR_tsnap"}

\* C12.  When validation reports any violation, the controller goes
\* straight to Terminated with exit code 1 and no side effect other than
\* diagnostic output: the step that validates leaves the file system as it
\* was (no directory created, no log opened or truncated, no snapshot
\* written), no snapshot is read, and the scheduler is never entered.
C12_ValidationFailureHasNoSideEffect ==
    [][ /\ (pc = "main_validate" /\ ~validate_params(params) /\ pc' # "crashed") =>
             /\ pc' = "done" /\ exit_code' = <<1>>
             /\ UNCHANGED <<FileSystem, log_fp, Scheduler, restored, fired>>
        /\ (diag' \cap ValidationErrors # {}) =>
             /\ pc' = "done" /\ exit_code' = <<1>>
             /\ ~log_fp' /\ ~restored' /\ i' = 0 /\ t' = 0 /\ fired' = {}
             /\ calls' = <<"parse_params_from_file", "validate_params">>
      ]_vars

\* C12, its case: a launch with rejected parameters has ended on an output
\* directory that an earlier launch filled.
C12_Witness ==
    /\ pc = "done" /\ exit_code = <<1>>
    /\ diag \cap ValidationErrors # {}
    /\ dir_exists /\ Len(log) > 0 /\ restart_file.exists
    /\ DOMAIN archive # {}

\* The launch reads a parameter file: one argument, naming an existing file.
FileMode == Len(argv) = 2 /\ paramfile.exists

\* The number a token stands for in field f.
TokenValue(f, tk) == IF f \in IntFields THEN atoi(tk) ELSE ToUnits(f, atof(tk))

\* The positions of the legacy command line that set field f.
PositionsOf(f) ==
    {k \in 1..Min(Len(argv) - 1, Len(PositionalNames)) : PositionalNames[k] = f}

\* C13.  Legacy positional parsing: with fewer than 6 tokens after the
\* program name the parse fails and the process exits with code 1; with 6
\* or more, tokens 1-6 are assigned in order to MAXlevel, tmax, We, Ohd,
\* Ohs, Ldomain, tokens 7-9 when present to drop_x, drop_y,
\* impact_velocity, and every field not covered by a supplied token keeps
\* its default value.  (A launch whose single argument names an existing
\* file is not a legacy launch.)
C13_LegacyPositionalParse ==
    /\ (parse_params_from_cli(argv, ZeroParams).rc # 0) <=> (Len(argv) - 1 < 6)
    /\ (pc # "main" /\ ~FileMode) =>
         IF Len(argv) - 1 < 6
         THEN pc = "done" /\ exit_code = <<1>> /\ "validate_params" \notin Range(calls)
         ELSE /\ params.nan = {}
              /\ \A f \in FieldNames :
                   params[f] = IF PositionsOf(f) = {} THEN set_default_params[f]
                               ELSE TokenValue(f, argv[1 + CHOOSE k \in PositionsOf(f) : TRUE])

\* C13, its case: ./dropImpact 12 0.025 5 1e-2 1e-5 4 2 has been parsed.
C13_Witness ==
    /\ pc = "main_validate" /\ Len(argv) = 8
    /\ params.MAXlevel = 12 /\ params.tmax = 5 /\ params.We = 5
    /\ params.Ohd = 10 /\ params.Ohs = 1 /\ params.Ldomain = 40
    /\ params.drop_x = 20 /\ params.drop_y = 10 /\ params.CaseNo = 1000

\* A line of a parameter file as the file format defines it: the text
\* before '#', split at its first '=' into a key and a value, each without
\* the white space around it.
RTrim(s) ==
    IF \A k \in 1..Len(s) : isspace(s[k]) THEN << >>
    ELSE SubSeq(s, 1, CHOOSE k \in 1..Len(s) :
                        ~isspace(s[k]) /\ \A m \in (k + 1)..Len(s) : isspace(s[m]))
LineBody(line) ==
    IF strchr(line, "#") = 0 THEN line ELSE SubSeq(line, 1, strchr(line, "#") - 1)
HasAssignment(line) == strchr(LineBody(line), "=") # 0
LineKey(line) ==
    RTrim(SkipSpaces(SubSeq(LineBody(line), 1, strchr(LineBody(line), "=") - 1)))
LineValue(line) ==
    RTrim(SkipSpaces(From(LineBody(line), strchr(LineBody(line), "=") + 1)))

\* The lines of the file that assign field f.
Assigning(tx, f) ==
    {k \in 1..Len(tx) : HasAssignment(tx[k]) /\ LineKey(tx[k]) = KeyName[f]}

\* The last of them.
LastAssigning(tx, f) == CHOOSE k \in Assigning(tx, f) : \A m \in Assigning(tx, f) : m <= k

\* The parameters the file format gives for the file text tx.
FileFormatValue(tx, f) ==
    IF Assigning(tx, f) = {} THEN set_default_params[f]
    ELSE Store(set_default_params, f, LineValue(tx[LastAssigning(tx, f)]))[f]

FileFormatNaN(tx) ==
    {f \in FieldNames \ (IntFields \cup {"output_dir"}) :
        Assigning(tx, f) # {} /\ atof(LineValue(tx[LastAssigning(tx, f)])).nan}

FileFormatWarns(tx) ==
    \E k \in 1..Len(tx) :
        HasAssignment(tx[k]) /\ \A f \in FieldNames : LineKey(tx[k]) # KeyName[f]

\* What C14 says of a launch that has read the parameter file.
FileParsedAsFormat ==
    IF ~paramfile.readable
    THEN pc = "done" /\ exit_code = <<1>> /\ "ERR_param_open" \in diag
    ELSE /\ diag \cap {"ERR_param_open", "ERR_parse_failed"} = {}
         /\ "validate_params" \in Range(calls) \/ pc = "main_validate"
         /\ \A f \in FieldNames : params[f] = FileFormatValue(paramfile.text, f)
         /\ params.nan = FileFormatNaN(paramfile.text)
         /\ ("WARN_unknown_key" \in diag) <=> FileFormatWarns(paramfile.text)

C14_ShortLinesFollowFormat ==
    (pc # "main" /\ FileMode
       /\ \A k \in 1..Len(paramfile.text) : Len(paramfile.text[k]) + 1 < LineBuf)
    => FileParsedAsFormat

\* C15.  File/CLI parity: the legacy positional parse of a command line
\* and the structured-file parse of the file that sets exactly the keys of
\* that command line to the same values give identical SimulationParams in
\* every field.
C15_FileCliParity ==
    (pc # "main" /\ Len(argv) - 1 >= 6 /\ paramfile = ParityFile(argv)) =>
        /\ parse_params_from_file(paramfile, ZeroParams).rc = 0
        /\ parse_params_from_file(paramfile, ZeroParams).p = params

\* C15, its case: a command line with the three optional tokens has been
\* parsed and the file of the same nine keys exists.
C15_Witness ==
    /\ pc = "main_validate" /\ Len(argv) = 10
    /\ paramfile = ParityFile(argv) /\ Len(paramfile.text) = 9
    /\ params.impact_velocity = -20 /\ params.MAXlevel = 9

ParserCalls == {"parse_params_from_file", "parse_params_from_cli"}

\* C16.  Uninitialized -> Configured runs exactly one parameter source per
\* launch, followed by validate before any domain or output setup: a
\* single argument naming an existing file selects the file parser, 6 or
\* more positional arguments select the legacy parser, and every other
\* argument shape ends the process with usage text and exit code 1 without
\* running either parser or validate.
C16_OneSourceThenValidate ==
    /\ Cardinality({k \in DOMAIN calls : calls[k] \in ParserCalls}) <= 1
    /\ \A k \in DOMAIN calls :
         /\ calls[k] \in ParserCalls => k = 1
         /\ calls[k] = "validate_params" => k = 2 /\ calls[1] \in ParserCalls
         /\ calls[k] \notin ParserCalls \cup {"validate_params"} =>
              k > 2 /\ calls[2] = "validate_params"
    /\ pc # "main" =>
         IF FileMode THEN calls[1] = "parse_params_from_file"
         ELSE IF Len(argv) - 1 >= 6 THEN calls[1] = "parse_params_from_cli"
         ELSE calls = << >> /\ pc = "done" /\ exit_code = <<1>> /\ "Usage" \in diag
    /\ pc \notin {"main", "main_validate", "done"} =>
         Len(calls) >= 2 /\ calls[2] = "validate_params"
    /\ pc = "main_validate" => calls \in {<<"parse_params_from_file">>,
                                          <<"parse_params_from_cli">>}

\* C16, its case: a legacy launch has gone through validate and the output
\* setup into the scheduler.
C16_Witness ==
    /\ pc = "adapt"
    /\ SubSeq(calls, 1, 4) = <<"parse_params_from_cli", "validate_params",
                               "create_output_directory", "open_log_files">>

\* The order of the grid.
GridOrder(cells) == [k \in 1..Len(cells) |-> k]

\* Positive cutoffs, in tenths.
Cutoffs == { [nan |-> FALSE, v |-> k] : k \in {2, 10, 15, 20} }

\* compute_maximum_interface_height(c) on the cells, visited in grid order.
Height(cells, c) == compute_maximum_interface_height(cells, GridOrder(cells), 0, c)

\* C17.  For a fixed field the footprint max-height is non-decreasing in
\* the cutoff: for all cutoffs 0 < c1 <= c2 the height for c1 is at most
\* the height for c2; and the height does not depend on the order in which
\* the cells are visited, nor on how the max-reduction shares them out.
C17_FootprintMonotone ==
    (tool.pc = "emit_footprint" /\ tool.grid) =>
        /\ \A c1, c2 \in Cutoffs :
             c1.v <= c2.v => Height(tool.cells, c1) <= Height(tool.cells, c2)
        /\ \A c \in Cutoffs, order \in Orders(Len(tool.cells)),
              share \in Shares(tool.cells) :
             compute_maximum_interface_height(tool.cells, order, share, c)
               = Height(tool.cells, c)
        /\ tool.cfg.x_cutoff \in Cutoffs =>
             tool.y_max = Height(tool.cells, tool.cfg.x_cutoff)

\* C17, its case: the height has been computed for cutoff 1.5 on a field
\* whose highest facet within the cutoff is in the first cell, with a lower
\* one after it, and whose height is lower for cutoff 1 and higher for
\* cutoff 2.
C17_Witness ==
    /\ tool.pc = "emit_footprint" /\ tool.grid
    /\ tool.cfg.x_cutoff = [nan |-> FALSE, v |-> 15]
    /\ tool.y_max = 10
    /\ tool.cells[1].x = 10 /\ tool.cells[2].x = 2 /\ tool.cells[2].y = 4
    /\ Height(tool.cells, [nan |-> FALSE, v |-> 10]) = 5
    /\ Height(tool.cells, [nan |-> FALSE, v |-> 20]) = 22

\* The invocation is bad: the argument count is wrong or, for the footprint
\* tool, the cutoff is not positive.
BadInvocation ==
    IF tool.name = "getFootPrint"
    THEN \/ Len(tool_argv) - 1 # 2
         \/ Cutoff(atof(tool_argv[3])).nan
         \/ Cutoff(atof(tool_argv[3])).v <= 0
    ELSE Len(tool_argv) - 1 # 1

\* C18.  The offline tools reject bad invocations before touching any
\* snapshot: the footprint tool exits with code 1 when the argument count
\* is not exactly 2 or the cutoff is not positive, the facet tool exits
\* with code 1 when the argument count is not exactly 1, and in each of
\* these cases no snapshot is restored and no data record is emitted;
\* otherwise exactly one snapshot is restored per invocation and the tool
\* exits 0.
C18_ToolsRejectBadInvocations ==
    /\ tool.restores <= 1
    /\ tool.pc # "main" =>
         IF BadInvocation
         THEN /\ tool.pc = "done" /\ tool.exit_code = <<1>>
              /\ tool.restores = 0 /\ tool.out = << >>
         ELSE /\ tool.pc # "crashed"
              /\ tool.pc = "done" => tool.exit_code = <<0>> /\ tool.restores = 1
              /\ tool.out # << >> => tool.restores = 1

\* C18 for invocations whose cutoff is a number and whose snapshot file
\* exists under a name that fits the tool's buffer.
C18_NumbersAndExistingFiles ==
    (/\ tool.pc # "main"
     /\ Len(tool_argv) >= 2 => tool_argv[2] = SnapName
     /\ Len(tool_argv) >= 3 => ~Cutoff(atof(tool_argv[3])).nan) =>
        IF BadInvocation
        THEN /\ tool.pc = "done" /\ tool.exit_code = <<1>>
             /\ tool.restores = 0 /\ tool.out = << >>
        ELSE /\ tool.pc # "crashed"
             /\ tool.pc = "done" => tool.exit_code = <<0>> /\ tool.restores = 1
             /\ tool.out # << >> => tool.restores = 1

\* What the events of an iteration call.
EventCalls == {"curvature", "adapt_wavelet", "unrefine", "statistics",
               "write_statistics", "save_snapshot"}

\* The fresh-initialization work of event init.
FreshInit == <<"refine", "fraction", "velocity">>

\* The calls of event init among the calls c.
InitCalls(c) == {k \in DOMAIN c : c[k] = "init"}

\* This step fires event init.
InitFires == Cardinality(InitCalls(calls')) > Cardinality(InitCalls(calls))

\* C19.  Entering Running fires the initialization event exactly once per
\* launch, before any adapt, statistics or checkpoint callback: Running is
\* entered only by the step that fires init, init fires in no other step,
\* and nothing of an iteration's events has been called before it.  If
\* restoring the canonical restart snapshot succeeds, none of the fresh
\* initialization (refine, fraction, velocity) is performed and FieldState,
\* iteration and time are those of the snapshot; if it fails, the three are
\* performed in that order, starting at time 0.
C19_InitOnceRestoreOrFresh ==
    [][ /\ (pc \notin Running /\ pc' \in Running) => InitFires
        /\ pc' = "run" => pc = "main_open_log"
        /\ InitFires =>
             /\ pc = "run" /\ pc' = "adapt"
             /\ Range(calls) \cap (EventCalls \cup {"init", "restore"}) = {}
             /\ fired = {} /\ fired' = {}
             /\ IF dir_exists /\ restart_file.exists
                THEN /\ calls' = calls \o <<"init", "restore">>
                     /\ restored'
                     /\ Snap(i', t', field') = restart_file
                ELSE /\ calls' = calls \o <<"init", "restore">> \o FreshInit
                     /\ ~restored'
                     /\ i' = 0 /\ t' = 0 /\ field' = 0
      ]_vars

\* C19, its case: a launch after a crash has restored the restart snapshot
\* of a later time in its init event and has done nothing else since.
C19_Witness ==
    /\ pc = "adapt" /\ crash_seen /\ restored /\ t > 0
    /\ Snap(i, t, field) = restart_file
    /\ calls = <<"parse_params_from_file", "validate_params",
                 "create_output_directory", "open_log_files", "init", "restore">>

\* The calls of c that are among the names in s, in their order.
Among(c, s) == SelectSeq(c, LAMBDA x : x \in s)

\* C20, the part of it that the events themselves decide: event adapt calls
\* the wavelet adaptation and then the outflow unrefinement, nothing being
\* called between the two, and in one iteration the statistics event comes
\* before the checkpoint.  Where the scheduler places event adapt among the
\* events of an iteration is not decided by dropImpact.c.
C20_OrderWithinEvents ==
    /\ \A k \in DOMAIN calls :
         /\ calls[k] = "adapt_wavelet" =>
              /\ k > 1 /\ calls[k - 1] = "curvature"
              /\ k < Len(calls) /\ calls[k + 1] = "unrefine"
         /\ calls[k] = "unrefine" => k > 1 /\ calls[k - 1] = "adapt_wavelet"
    /\ IsPrefix(Among(calls, {"statistics", "save_snapshot"}),
                <<"statistics", "save_snapshot">>)
    /\ pc \in {"step", "cleanup"} => "statistics" \in Range(calls)

\* What C21 says of one step of a launch.
LogHandleLifecycle ==
    /\ (~log_fp /\ log_fp') =>
         /\ pc = "main_open_log" /\ pc' = "run"
         /\ "validate_params" \in Range(calls)
         /\ Range(calls) \cap (EventCalls \cup {"init", "open_log_files"}) = {}
    /\ pc' \in Running \cup {"run"} => log_fp'
    /\ (log_fp /\ ~log_fp' /\ pc' \notin {"crashed", "main"}) =>
         /\ pc = "cleanup" /\ pc' = "done"
         /\ "close_log_files" \notin Range(calls)
    /\ (pc = "cleanup" /\ pc' = "done") =>
         /\ ~log_fp'
         /\ ~log_fp => "Log file closed" \notin diag'
    /\ log' # log => log_fp'

\* C21.  Log handle lifecycle: within one launch the log is opened exactly
\* once, after successful validation and before the scheduler starts; it
\* is open in every state of Running, so that every statistics call finds
\* it open; it is never reopened; it is closed exactly once, at
\* termination; a close of a closed log does nothing and no record is
\* written after the close.
C21_LogHandleLifecycle == [][LogHandleLifecycle]_vars

\* C21 for launches whose fopen of the log succeeded.
C21_WhenLogOpened ==
    [][("ERR_log_open" \notin diag') => LogHandleLifecycle]_vars

\* What C22 says of one step of a launch.
TerminatesByCleanup ==
    /\ (pc \in Running /\ pc' = "done") =>
         /\ pc = "cleanup" /\ Finished(t)
         /\ exit_code' = <<0>>
         /\ ~log_fp'
         /\ "Simulation completed" \in diag'
    /\ pc = "cleanup" => pc' \in {"done", "crashed"}
    /\ "cleanup" \in Range(calls') =>
         /\ pc' = "done"
         /\ Cardinality({k \in DOMAIN calls' : calls'[k] = "cleanup"}) = 1
         /\ calls'[Len(calls') - 1] = "cleanup"
    /\ pc = "done" => pc' = "main"

\* C22.  In a launch that passes validation and does not crash, the
\* controller eventually reaches Terminated: once the scheduler reaches
\* the end time the cleanup callback fires exactly once, closes the log,
\* reports success, and the process exits with code 0; no adapt, statistics
\* or checkpoint callback fires after cleanup, and Terminated is reached
\* from Running by no other transition.
C22_TerminatesByCleanup ==
    /\ [][TerminatesByCleanup]_vars
    /\ (pc = "main_output") ~> (pc \in {"done", "crashed"})

\* C22 for launches whose output directory and intermediate directory
\* exist when the scheduler starts.
C22_WhenDirectoriesExist ==
    /\ [][(pc \in Running /\ dir_exists /\ inter_exists) => TerminatesByCleanup]_vars
    /\ (pc = "main_output") ~> (pc \in {"done", "crashed"})

\* Where the launch is while its parameters are as the file gave them.
AfterParse == pc \notin {"main", "crashed"}

\* C23.  Every configuration accepted by validate is safe for the
\* per-step callbacks and the domain setup: the log interval is at least
\* 1, so that the statistics callback's "iteration modulo log_interval" is
\* always defined, the initial grid level is a non-negative level usable
\* as an exponent of 2, and no accepted launch is killed by an undefined
\* operation.
C23_AcceptedConfigurationsAreSafe ==
    /\ (AfterParse /\ validate_params(params)) =>
         /\ params.log_interval >= 1
         /\ ShiftDefined(params.init_grid_level)
    /\ pc # "crashed"

\* C23 for the configurations whose log interval is not 0 and whose
\* initial grid level is between 0 and 30: no launch is killed.
C23_SafeWhenInRange ==
    (\E li \in {1, -2}, gl \in {0, 6} :
        paramfile.text = << ParamLine("tmax", TicksText(MaxTmax - 2)),
                            ParamLine("log_interval", IntText(li)),
                            ParamLine("init_grid_level", IntText(gl)) >>)
    => pc # "crashed"

====
